---- MODULE Spec2Model ----
(***************************************************************************)
(* Model of the bcachefs-tui counter application (src/src/main.rs).        *)
(*                                                                         *)
(* Two specifications share the operators translated from impl App:        *)
(*   Spec      the program: main() acquires the terminal, App::run()       *)
(*             alternates draw and handle_events, main() restores.         *)
(*   TestSpec  the unit-test harness: handle_key_event is called directly  *)
(*             on an App::default(), as mod tests does.                    *)
(***************************************************************************)
EXTENDS Integers, Sequences, FiniteSets

VARIABLES
    overflow_checks, \* build profile: TRUE = arithmetic overflow panics (debug/test), FALSE = it wraps (release)
    app,             \* the App struct: [counter, exit]
    pc,              \* position in main()/run(), or in the test harness
    run_result,      \* what App::run returned to main (None while it has not returned)
    exit_code,       \* process exit status (NoCode while the process lives)
    inited,          \* tui::init() has succeeded
    hooks,           \* the panic and error hooks of errors::install_hooks are installed
    restores,        \* number of invocations of tui::restore()
    frame,           \* the last frame drawn by terminal.draw
    draws,           \* number of frames drawn by terminal.draw
    io_failed,       \* which terminal call failed inside run(): "none", "draw" or "read"
    last,            \* the last event taken by handle_events / handle_key_event, with its pre-state and result
    prev,            \* the event before that
    events,          \* number of events taken so far
    k_only,          \* every event so far was a pressed k
    scen             \* how many events of the end-to-end trace have been matched (Off once the inputs left it)

vars == <<overflow_checks, app, pc, run_result, exit_code, inited, hooks, restores,
          frame, draws, io_failed, last, prev, events, k_only, scen>>

-----------------------------------------------------------------------------
(* Bounds and program constants *)

\* at most this many events are read in one behaviour
MaxEvents == 8

\* counter: u8
U8 == 256

\* if self.counter > 2
CounterLimit == 2

NoCode == 0 - 1
Off == 0 - 1

-----------------------------------------------------------------------------
(* Results: color_eyre::Result<()>, plus the panic that unwinds instead of returning *)

Ok == [kind |-> "Ok", chain |-> <<>>]
Err(msg) == [kind |-> "Err", chain |-> <<msg>>]
Panic(msg) == [kind |-> "Panic", chain |-> <<msg>>]
None == [kind |-> "None", chain |-> <<>>]

\* WrapErr::wrap_err: an Err gets the context pushed in front of its chain
wrap_err(res, context) ==
    IF res.kind = "Err" THEN [res EXCEPT !.chain = <<context>> \o @] ELSE res

\* Report::to_string(): the outermost message
to_string_err(res) == IF res.chain = <<>> THEN "" ELSE Head(res.chain)

-----------------------------------------------------------------------------
(* Events of crossterm::event *)

KeyCodes == {"q", "j", "k", "x"}
KeyEventKinds == {"Press", "Release", "Repeat"}
KeyEvents == [type : {"Key"}, code : KeyCodes, kind : KeyEventKinds]
OtherEvents == {[type |-> "Resize", code |-> "", kind |-> ""]}
Events == KeyEvents \cup OtherEvents
NoEvent == [type |-> "None", code |-> "", kind |-> ""]

\* KeyCode::Char(c).into(): a KeyEvent of kind Press
KeyEventFrom(code) == [type |-> "Key", code |-> code, kind |-> "Press"]

Press(c) == KeyEventFrom(c)

-----------------------------------------------------------------------------
(* impl App *)

AppDefault == [counter |-> 0, exit |-> FALSE]

\* exit() written as a reset to a fresh, exited App
exit_resets(self) == [counter |-> 0, exit |-> TRUE]

\* exit() written as a toggle
exit_toggles(self) == [self EXCEPT !.exit = ~@]

exit(self) == [self EXCEPT !.exit = TRUE]

\* the decrement guarded one too early (counter <= 1 instead of counter < 1)
decrement_counter_guards_one(self, oc) ==
    IF self.counter <= 1
    THEN [app |-> self, res |-> Err("counter underflow")]
    ELSE [app |-> [self EXCEPT !.counter = self.counter - 1], res |-> Ok]

decrement_counter(self, oc) ==
    LET d == self.counter - 1 IN
    IF d < 0
    THEN IF oc
         THEN [app |-> self, res |-> Panic("attempt to subtract with overflow")]
         ELSE [app |-> [self EXCEPT !.counter = d % U8], res |-> Ok]
    ELSE [app |-> [self EXCEPT !.counter = d], res |-> Ok]

increment_counter(self, oc) ==
    LET s == self.counter + 1 IN
    IF s >= U8 /\ oc
    THEN [app |-> self, res |-> Panic("attempt to add with overflow")]
    ELSE LET next == [self EXCEPT !.counter = s % U8] IN
         IF next.counter > CounterLimit
         THEN [app |-> next, res |-> Err("counter overflow")]
         ELSE [app |-> next, res |-> Ok]

\* handle_key_event whose default arm quits instead of doing nothing
handle_key_event_default_quits(self, key_event, oc) ==
    CASE key_event.code = "q" -> [app |-> exit(self), res |-> Ok]
      [] key_event.code = "j" -> decrement_counter(self, oc)
      [] key_event.code = "k" -> increment_counter(self, oc)
      [] OTHER -> [app |-> exit(self), res |-> Ok]

handle_key_event(self, key_event, oc) ==
    CASE key_event.code = "q" -> [app |-> exit(self), res |-> Ok]
      [] key_event.code = "j" -> decrement_counter(self, oc)
      [] key_event.code = "k" -> increment_counter(self, oc)
      [] OTHER -> [app |-> self, res |-> Ok]

\* handle_events without the KeyEventKind::Press guard: every key event is dispatched
handle_events_any_kind(self, read, oc) ==
    IF ~read.ok
    THEN [app |-> self, res |-> Err("io error"), dispatched |-> FALSE]
    ELSE IF read.ev.type = "Key"
         THEN LET r == handle_key_event(self, read.ev, oc) IN
              [app |-> r.app,
               res |-> wrap_err(r.res, "handling key event failed"),
               dispatched |-> TRUE]
         ELSE [app |-> self, res |-> Ok, dispatched |-> FALSE]

\* read is the outcome of event::read(): [ok, ev]
handle_events(self, read, oc) ==
    IF ~read.ok
    THEN [app |-> self, res |-> Err("io error"), dispatched |-> FALSE]
    ELSE IF read.ev.type = "Key" /\ read.ev.kind = "Press"
         THEN LET r == handle_key_event(self, read.ev, oc) IN
              [app |-> r.app,
               res |-> wrap_err(r.res, "handling key event failed"),
               dispatched |-> TRUE]
         ELSE [app |-> self, res |-> Ok, dispatched |-> FALSE]

-----------------------------------------------------------------------------
(* impl Widget for &App *)

RECURSIVE to_string(_)
\* u8::to_string: the decimal digits, most significant first
to_string(n) ==
    IF n < 10 THEN <<n>> ELSE Append(to_string(n \div 10), n % 10)

\* the body line of the panel: "Value: " followed by the counter's digits
render(self) == [label |-> "Value: ", digits |-> to_string(self.counter)]

NoFrame == [label |-> "", digits |-> <<>>]

-----------------------------------------------------------------------------
(* History kept for the properties *)

NoCall == [ev |-> NoEvent, pre |-> AppDefault, res |-> None, dispatched |-> FALSE]

\* k, k, k, j, j, j, q
Scenario == <<Press("k"), Press("k"), Press("k"),
              Press("j"), Press("j"), Press("j"), Press("q")>>

ScenNext(ev) ==
    IF scen # Off /\ scen < Len(Scenario) /\ Scenario[scen + 1] = ev
    THEN scen + 1 ELSE Off

Record(ev, r, disp) ==
    /\ prev' = last
    /\ last' = [ev |-> ev, pre |-> app, res |-> r.res, dispatched |-> disp]
    /\ events' = events + 1
    /\ k_only' = (k_only /\ ev = Press("k"))
    /\ scen' = ScenNext(ev)

History == <<last, prev, events, k_only, scen>>

-----------------------------------------------------------------------------
(* Spec: main() and App::run() *)

\* What the installed hooks do when an error report or a panic ends the
\* process before main reaches tui::restore(): the terminal session manager
\* "guarantees restoration of normal terminal state on exit or panic", so the
\* hook restores the terminal; without hooks nothing does.
HookRestore == IF hooks THEN restores + 1 ELSE restores

Init ==
    /\ overflow_checks \in BOOLEAN
    /\ app = AppDefault
    /\ pc = "install_hooks"
    /\ run_result = None
    /\ exit_code = NoCode
    /\ inited = FALSE
    /\ hooks = FALSE
    /\ restores = 0
    /\ frame = NoFrame
    /\ draws = 0
    /\ io_failed = "none"
    /\ last = NoCall
    /\ prev = NoCall
    /\ events = 0
    /\ k_only = TRUE
    /\ scen = 0

\* errors::install_hooks()?
\* On success the panic hook and the error hook are in place for the rest of
\* the process.
MainInstallHooks ==
    /\ pc = "install_hooks"
    /\ \E ok \in BOOLEAN :
         IF ok THEN pc' = "init" /\ exit_code' = exit_code /\ hooks' = TRUE
               ELSE pc' = "done" /\ exit_code' = 1 /\ hooks' = hooks
    /\ UNCHANGED <<overflow_checks, app, run_result, inited, restores, frame,
                   draws, io_failed, History>>

\* let mut terminal = tui::init()?
MainTuiInit ==
    /\ pc = "init"
    /\ \E ok \in BOOLEAN :
         IF ok THEN /\ pc' = "while" /\ inited' = TRUE /\ exit_code' = exit_code
                    /\ restores' = restores
               ELSE /\ pc' = "done" /\ inited' = inited /\ exit_code' = 1
                    /\ restores' = HookRestore
    /\ UNCHANGED <<overflow_checks, hooks, app, run_result, frame,
                   draws, io_failed, History>>

\* run() with the draw hoisted out of the loop: only the first iteration draws
RunWhile_draws_once ==
    /\ pc = "while"
    /\ IF ~app.exit
       THEN pc' = (IF draws = 0 THEN "draw" ELSE "handle_events") /\ run_result' = run_result
       ELSE pc' = "run_returned" /\ run_result' = Ok
    /\ UNCHANGED <<overflow_checks, hooks, app, exit_code, inited, restores, frame,
                   draws, io_failed, History>>

\* run() written as a loop that tests the exit flag only before its first iteration
RunWhile_ignores_exit ==
    /\ pc = "while"
    /\ IF ~app.exit \/ draws > 0
       THEN pc' = "draw" /\ run_result' = run_result
       ELSE pc' = "run_returned" /\ run_result' = Ok
    /\ UNCHANGED <<overflow_checks, hooks, app, exit_code, inited, restores, frame,
                   draws, io_failed, History>>

\* while !self.exit { ... } Ok(())
RunWhile ==
    /\ pc = "while"
    /\ IF ~app.exit
       THEN pc' = "draw" /\ run_result' = run_result
       ELSE pc' = "run_returned" /\ run_result' = Ok
    /\ UNCHANGED <<overflow_checks, hooks, app, exit_code, inited, restores, frame,
                   draws, io_failed, History>>

\* run() that drops the result of terminal.draw instead of propagating it
RunDraw_ignores_failure ==
    /\ pc = "draw"
    /\ \E ok \in BOOLEAN :
         IF ok
         THEN /\ frame' = render(app)
              /\ draws' = draws + 1
              /\ io_failed' = io_failed
         ELSE /\ frame' = frame
              /\ draws' = draws
              /\ io_failed' = "draw"
    /\ pc' = "handle_events"
    /\ UNCHANGED <<overflow_checks, hooks, app, run_result, exit_code, inited, restores, History>>

\* a render_frame that takes &mut self and counts the frames in the counter
RunDraw_mutates ==
    /\ pc = "draw"
    /\ \E ok \in BOOLEAN :
         IF ok
         THEN /\ frame' = render(app)
              /\ app' = [app EXCEPT !.counter = (@ + 1) % U8]
              /\ draws' = draws + 1
              /\ io_failed' = io_failed
              /\ pc' = "handle_events"
              /\ run_result' = run_result
         ELSE /\ frame' = frame
              /\ app' = app
              /\ draws' = draws
              /\ io_failed' = "draw"
              /\ pc' = "run_returned"
              /\ run_result' = Err("io error")
    /\ UNCHANGED <<overflow_checks, hooks, exit_code, inited, restores, History>>

\* terminal.draw(|frame| self.render_frame(frame))?
RunDraw ==
    /\ pc = "draw"
    /\ \E ok \in BOOLEAN :
         IF ok
         THEN /\ frame' = render(app)
              /\ draws' = draws + 1
              /\ io_failed' = io_failed
              /\ pc' = "handle_events"
              /\ run_result' = run_result
         ELSE /\ frame' = frame
              /\ draws' = draws
              /\ io_failed' = "draw"
              /\ pc' = "run_returned"
              /\ run_result' = Err("io error")
    /\ UNCHANGED <<overflow_checks, hooks, app, exit_code, inited, restores, History>>

\* self.handle_events().wrap_err("handle events failed")?
RunHandleEvents ==
    /\ pc = "handle_events"
    /\ events < MaxEvents
    /\ \E read \in ([ok : {TRUE}, ev : Events] \cup [ok : {FALSE}, ev : {NoEvent}]) :
         LET r == handle_events(app, read, overflow_checks)
             res == wrap_err(r.res, "handle events failed")
         IN /\ app' = r.app
            /\ IF read.ok
               THEN Record(read.ev, r, r.dispatched) /\ io_failed' = io_failed
               ELSE UNCHANGED History /\ io_failed' = "read"
            /\ CASE res.kind = "Ok" ->
                      /\ pc' = "while" /\ run_result' = run_result
                      /\ exit_code' = exit_code /\ restores' = restores
                 [] res.kind = "Err" ->
                      /\ pc' = "run_returned" /\ run_result' = res
                      /\ exit_code' = exit_code /\ restores' = restores
                 [] res.kind = "Panic" ->
                      /\ pc' = "done" /\ run_result' = run_result
                      /\ exit_code' = 101 /\ restores' = HookRestore
    /\ UNCHANGED <<overflow_checks, hooks, inited, frame, draws>>

\* App::default().run(&mut terminal)?
MainRunReturned ==
    /\ pc = "run_returned"
    /\ IF run_result.kind = "Err"
       THEN pc' = "done" /\ exit_code' = 1 /\ restores' = HookRestore
       ELSE pc' = "restore" /\ exit_code' = exit_code /\ restores' = restores
    /\ UNCHANGED <<overflow_checks, hooks, app, run_result, inited, frame,
                   draws, io_failed, History>>

\* tui::restore()?; Ok(())
MainRestore ==
    /\ pc = "restore"
    /\ restores' = restores + 1
    /\ \E ok \in BOOLEAN : exit_code' = IF ok THEN 0 ELSE 1
    /\ pc' = "done"
    /\ UNCHANGED <<overflow_checks, hooks, app, run_result, inited, frame,
                   draws, io_failed, History>>

Next ==
    \/ MainInstallHooks
    \/ MainTuiInit
    \/ RunWhile
    \/ RunDraw
    \/ RunHandleEvents
    \/ MainRunReturned
    \/ MainRestore

Spec == Init /\ [][Next]_vars

-----------------------------------------------------------------------------
(* TestSpec: mod tests calls handle_key_event directly *)

TestInit ==
    /\ overflow_checks \in BOOLEAN
    /\ app = AppDefault
    /\ pc = "test"
    /\ run_result = None
    /\ exit_code = NoCode
    /\ inited = FALSE
    /\ hooks = FALSE
    /\ restores = 0
    /\ frame = NoFrame
    /\ draws = 0
    /\ io_failed = "none"
    /\ last = NoCall
    /\ prev = NoCall
    /\ events = 0
    /\ k_only = TRUE
    /\ scen = 0

\* app.handle_key_event(KeyCode::Char(c).into())
TestHandleKeyEvent ==
    /\ pc = "test"
    /\ events < MaxEvents
    /\ \E code \in KeyCodes :
         LET r == handle_key_event(app, KeyEventFrom(code), overflow_checks) IN
         /\ app' = r.app
         /\ Record(KeyEventFrom(code), r, TRUE)
         /\ pc' = IF r.res.kind = "Panic" THEN "test_panicked" ELSE "test"
    /\ UNCHANGED <<overflow_checks, hooks, run_result, exit_code, inited, restores, frame,
                   draws, io_failed>>

TestNext == TestHandleKeyEvent

TestSpec == TestInit /\ [][TestNext]_vars

-----------------------------------------------------------------------------
(* Common vocabulary of the properties *)

\* run() is still iterating: it has neither returned nor been unwound
Running == pc \in {"while", "draw", "handle_events"}

Crashed == exit_code = 101 \/ pc = "test_panicked"

-----------------------------------------------------------------------------
(* Properties *)

Root(res) == IF res.chain = <<>> THEN "" ELSE res.chain[Len(res.chain)]

Failed(call, msg) == call.res.kind = "Err" /\ Root(call.res) = msg

Min(a, b) == IF a < b THEN a ELSE b

\* C1: when a pressed k is dispatched inside run() and fails with "counter
\* overflow", run() stays in its loop with the exit flag false and does not
\* return that error to main.
\* (Stated for the build with overflow checks, the profile the tests run under.)
C1_OverflowStaysInLoop ==
    (overflow_checks /\ last.ev = Press("k") /\ last.dispatched /\ Failed(last, "counter overflow"))
        => /\ ~app.exit
           /\ ~(run_result.kind = "Err" /\ Root(run_result) = "counter overflow")
           /\ (run_result.kind = "None" => Running)

\* C2: after n consecutive k presses from App::default() the counter is min(n, 2).
C2_CounterIsMinPressesTwo ==
    k_only => app.counter = Min(events, CounterLimit)

\* C3: in every reachable state the counter is at most 2.
\* (Stated for the build with overflow checks, the profile the tests run under.)
C3_CounterAtMostTwo ==
    overflow_checks => app.counter <= CounterLimit

\* C4: a pressed j at counter 0 makes the key handler return a recoverable
\* "counter underflow" error; the process does not crash and the loop keeps
\* running with the exit flag false.
\* (Stated for the build with overflow checks, the profile the tests run under.)
C4_UnderflowIsRecoverable ==
    (overflow_checks /\ last.ev = Press("j") /\ last.dispatched /\ last.pre.counter = 0)
        => /\ Failed(last, "counter underflow")
           /\ ~Crashed
           /\ ~app.exit
           /\ ~(run_result.kind = "Err" /\ Root(run_result) = "counter underflow")
           /\ (run_result.kind = "None" => Running)

\* C6: a pressed q sets the exit flag, returns Ok and leaves the counter as it was.
C6_QuitSetsExitOnly ==
    (last.ev = Press("q") /\ last.dispatched)
        => /\ app.exit
           /\ last.res = Ok
           /\ app.counter = last.pre.counter

C6_Witness ==
    /\ last.ev = Press("q") /\ last.dispatched
    /\ last.pre.counter > 0 /\ ~last.pre.exit
    /\ app.exit /\ app.counter = last.pre.counter

\* C7: the exit flag is false initially and, once true, no later step makes it false.
C7_ExitMonotonic ==
    /\ ~app.exit
    /\ [][app.exit => app.exit']_vars

C7_Witness ==
    /\ last.pre.exit /\ app.exit
    /\ last.ev \in {Press("j"), Press("k"), Press("x")}

\* C8: the exit flag goes from false to true only in a step that dispatches a
\* pressed q; every other event leaves it false, and run() returns Ok only
\* after a pressed q.
C8_ExitOnlyByQ ==
    [][/\ (~app.exit /\ app.exit')
            => (events' = events + 1 /\ last'.ev = Press("q") /\ last'.dispatched)
       /\ (~app.exit /\ events' = events + 1 /\ last'.ev # Press("q"))
            => ~app.exit'
       /\ (run_result'.kind = "Ok")
            => (app'.exit /\ last'.ev = Press("q"))]_vars

C8_Witness ==
    /\ run_result = Ok /\ app.exit
    /\ last.ev = Press("q") /\ ~last.pre.exit
    /\ prev.ev = Press("j") /\ prev.res = Ok /\ ~prev.pre.exit

\* C9: the end-to-end trace of run(): k, k gives counter 2; a third k reports
\* overflow and the loop is still running; j, j take the counter to 1 and 0;
\* a third j reports underflow with the loop still running and the counter 0;
\* q makes run() return with the exit flag true.
\* (Stated for the build with overflow checks, the profile the tests run under.)
C9_EndToEndTrace ==
    overflow_checks =>
        /\ scen = 2 => app.counter = 2
        /\ scen = 3 => /\ Failed(last, "counter overflow")
                       /\ run_result.kind = "None" /\ Running
        /\ scen = 4 => app.counter = 1
        /\ scen = 5 => app.counter = 0
        /\ scen = 6 => /\ Failed(last, "counter underflow")
                       /\ app.counter = 0
                       /\ run_result.kind = "None" /\ Running /\ ~Crashed
        /\ scen = 7 => app.exit /\ run_result.kind \in {"None", "Ok"}
        /\ (scen = 7 /\ pc # "while") => run_result = Ok

\* C10: with counter > 0 a pressed j returns Ok, lowers the counter by exactly 1
\* and leaves the exit flag alone; a successful k followed by j gives back the
\* counter the k started from.
C10_DecrementByOne ==
    /\ (last.ev = Press("j") /\ last.dispatched /\ last.pre.counter > 0)
         => /\ last.res = Ok
            /\ app.counter = last.pre.counter - 1
            /\ app.exit = last.pre.exit
    /\ (last.ev = Press("j") /\ prev.ev = Press("k") /\ prev.res = Ok)
         => app.counter = prev.pre.counter

C10_Witness ==
    /\ last.ev = Press("j") /\ last.res = Ok
    /\ prev.ev = Press("k") /\ prev.res = Ok
    /\ last.pre.counter = 2 /\ app.counter = 1 /\ prev.pre.counter = 1

\* C11: a pressed k returns the error "counter overflow" exactly when the
\* counter before the press is 2 or more; from 0 or 1 it returns Ok and the
\* counter is the value before the press plus 1.
C11_OverflowExactlyFromTwo ==
    (last.ev = Press("k") /\ last.dispatched)
        => IF last.pre.counter >= CounterLimit
           THEN last.res.kind = "Err" /\ to_string_err(last.res) = "counter overflow"
           ELSE last.res = Ok /\ app.counter = last.pre.counter + 1

\* C12: a pressed key other than j, k, q, and any event that is not a key
\* press, returns Ok and leaves counter and exit as they were; only pressed
\* key events are dispatched to the key handler.
C12_OtherInputsAreNoOps ==
    /\ (events > 0 /\ last.ev \notin {Press("j"), Press("k"), Press("q")})
         => /\ last.res = Ok
            /\ app = last.pre
    /\ last.dispatched => (last.ev.type = "Key" /\ last.ev.kind = "Press")
    /\ (events > 0 /\ ~(last.ev.type = "Key" /\ last.ev.kind = "Press"))
         => ~last.dispatched

C12_Witness ==
    /\ last.ev = [type |-> "Key", code |-> "q", kind |-> "Release"]
    /\ ~last.dispatched /\ last.res = Ok
    /\ prev.ev = Press("x") /\ prev.dispatched /\ prev.res = Ok
    /\ prev.pre = app /\ app = [counter |-> 1, exit |-> FALSE]

\* C13: a pressed j at counter 0 never stores a wrapped value: the counter
\* after a j press is never larger than before it, and the press at 0 ends in
\* the fault "attempt to subtract with overflow".
C13_DecrementNeverWraps ==
    (last.ev = Press("j") /\ last.dispatched)
        => /\ app.counter <= last.pre.counter
           /\ last.pre.counter = 0
                => /\ last.res = Panic("attempt to subtract with overflow")
                   /\ app.counter = 0

\* C14: run() alternates draw and read, starting with a draw: whenever it
\* waits for an event the frames drawn are one more than the events read and
\* the last frame shows the current state; the two counts never differ by more.
C14_DrawBeforeEveryRead ==
    /\ pc = "handle_events" => (draws = events + 1 /\ frame = render(app))
    /\ draws \in {events, events + 1}

C14_Witness ==
    /\ pc = "handle_events" /\ events = 3 /\ draws = 4
    /\ app.counter = 2 /\ frame.digits = <<2>>

\* C15: once the exit flag is true, run() makes no further draw or event read
\* and changes no state: its next step is to return Ok.
C15_ExitedIsTerminal ==
    [][/\ app.exit
            => /\ app' = app
               /\ UNCHANGED <<draws, events, frame, last, io_failed>>
       /\ (app.exit /\ pc = "while")
            => (pc' = "run_returned" /\ run_result' = Ok)
       /\ app'.exit
            => /\ pc' \in {"while", "run_returned", "restore", "done"}
               /\ pc' # "while" => run_result' = Ok]_vars

C15_Witness ==
    /\ app.exit /\ pc = "done" /\ run_result = Ok /\ exit_code = 0
    /\ events = 3 /\ draws = 3 /\ app.counter = 2
    /\ last.ev = Press("q")

\* C16: a failure of draw or of the event read ends run() at once with that
\* error: after a draw failure no event is read, after a read failure the key
\* handler is not invoked, and counter and exit keep their values.
C16_IoFailureEndsRun ==
    [][/\ (io_failed = "none" /\ io_failed' = "draw")
            => /\ pc = "draw" /\ pc' = "run_returned"
               /\ run_result' = Err("io error")
               /\ app' = app
               /\ UNCHANGED <<events, draws, last, prev>>
       /\ (io_failed = "none" /\ io_failed' = "read")
            => /\ pc = "handle_events" /\ pc' = "run_returned"
               /\ run_result' = wrap_err(Err("io error"), "handle events failed")
               /\ app' = app
               /\ UNCHANGED <<events, draws, last, prev>>
       /\ io_failed # "none"
            => /\ pc = "run_returned" /\ pc' = "done" /\ exit_code' = 1
               /\ app' = app
               /\ UNCHANGED <<events, draws, last, prev, run_result, io_failed>>]_vars

C16_Witness ==
    /\ io_failed = "read" /\ pc = "done" /\ exit_code = 1
    /\ run_result = [kind |-> "Err", chain |-> <<"handle events failed", "io error">>]
    /\ events = 2 /\ draws = 3 /\ app = [counter |-> 2, exit |-> FALSE]
    /\ last.ev = Press("k")

\* C17: a draw never changes counter or exit (only a dispatched key event
\* does), the frame it leaves is the rendering of the state it was given, and
\* drawing an unchanged state again leaves the same frame.
C17_RenderIsPure ==
    [][/\ draws' # draws => (app' = app /\ frame' = render(app))
       /\ app' # app => (events' = events + 1 /\ last'.dispatched /\ draws' = draws)
       /\ (draws' = draws + 1 /\ draws > 0 /\ last.pre = app) => frame' = frame]_vars

C17_Witness ==
    /\ pc = "handle_events" /\ draws = 4
    /\ last.pre = app /\ prev.pre = app
    /\ app = [counter |-> 1, exit |-> FALSE]
    /\ frame = [label |-> "Value: ", digits |-> <<1>>]

====
